---- MODULE Spec2Model ----
(***************************************************************************)
(* PageRank (pagerank.py): the transition model, the sampler and the       *)
(* iterative solver, each called on a corpus produced by crawl().          *)
(*                                                                         *)
(* Arithmetic.  transition_model is a finite-depth computation and is      *)
(* modelled in exact rational arithmetic (pairs <<numerator, denominator>> *)
(* in lowest terms).  iterate_pagerank runs an unbounded loop on floats;   *)
(* its values are modelled as fixed-point numbers, integers in units of    *)
(* 1/SCALE, and every float operation rounds to the nearest unit.          *)
(***************************************************************************)
EXTENDS Integers, Sequences, FiniteSets, TLC

VARIABLES corpus, total_page, damping_factor, fn, pc, page, n, state, i,
          visits, model, pagerank, diff, past, idx, outcome, result

vars == <<corpus, total_page, damping_factor, fn, pc, page, n, state, i,
          visits, model, pagerank, diff, past, idx, outcome, result>>

(***************************************************************************)
(* Inputs                                                                  *)
(***************************************************************************)
\* the file names crawl() can find in the directory
Pages == {"a.html", "b.html", "c.html"}

\* damping factors tried, as exact rationals (DAMPING = 0.85 = 17/20)
DampingFactors == {<<17, 20>>, <<1, 2>>}

\* largest sample count n passed to sample_pagerank
MaxN == 3

Fns == {"transition_model", "sample_pagerank", "iterate_pagerank"}

\* the mapping with no keys (an empty dict)
EmptyDict == [p \in {} |-> 0]

\* what crawl() returns: links only to other pages of the corpus
Corpora == UNION {{c \in [keys -> SUBSET keys] : \A k \in keys : k \notin c[k]} :
                  keys \in SUBSET Pages}

\* list(corpus.keys()): the keys in some insertion order (only
\* iterate_pagerank reads the order, so the other calls get one order)
KeyLists(c) == {s \in [1..Cardinality(DOMAIN c) -> DOMAIN c] :
                  \A a, b \in DOMAIN s : a # b => s[a] # s[b]}

(***************************************************************************)
(* Exact rationals                                                         *)
(***************************************************************************)
\* Euclid's algorithm
gcd[a \in Nat, b \in Nat] == IF b = 0 THEN a ELSE gcd[b, a % b]

Rat(a, b) == LET g == gcd[a, b] IN <<a \div g, b \div g>>

RAdd(x, y) == Rat(x[1] * y[2] + y[1] * x[2], x[2] * y[2])

RDivInt(x, k) == Rat(x[1], x[2] * k)

ROneMinus(x) == Rat(x[2] - x[1], x[2])

RECURSIVE RSum(_)
RSum(f) == IF DOMAIN f = {} THEN <<0, 1>>
           ELSE LET k == CHOOSE k \in DOMAIN f : TRUE
                IN RAdd(f[k], RSum([q \in DOMAIN f \ {k} |-> f[q]]))

RECURSIVE ISum(_)
ISum(f) == IF DOMAIN f = {} THEN 0
           ELSE LET k == CHOOSE k \in DOMAIN f : TRUE
                IN f[k] + ISum([q \in DOMAIN f \ {k} |-> f[q]])

(***************************************************************************)
(* transition_model                                                        *)
(***************************************************************************)
\* linked = corpus[page]; a page without links gets every key of the corpus
Linked(c, pg) == IF Cardinality(c[pg]) = 0 THEN DOMAIN c ELSE c[pg]

\* slip: the base share divided by len(linked) instead of len(corpus)
OneMinusD_overLinked(c, pg, d) == RDivInt(ROneMinus(d), Cardinality(Linked(c, pg)))

\* one_minus_d = (1 - damping_factor) / len(corpus)
OneMinusD(c, pg, d) == RDivInt(ROneMinus(d), Cardinality(DOMAIN c))

\* slip: the link share divided by len(corpus) instead of len(linked)
LinkShare_overN(c, pg, d) == RDivInt(d, Cardinality(DOMAIN c))

\* d = damping_factor / len(linked)
LinkShare(c, pg, d) == RDivInt(d, Cardinality(Linked(c, pg)))

transition_model(c, pg, d) ==
    [p \in DOMAIN c |-> IF p \in Linked(c, pg)
                        THEN RAdd(OneMinusD(c, pg, d), LinkShare(c, pg, d))
                        ELSE OneMinusD(c, pg, d)]

(***************************************************************************)
(* State machine                                                           *)
(***************************************************************************)
Init ==
    /\ corpus \in Corpora
    /\ damping_factor \in DampingFactors
    /\ fn \in Fns
    /\ total_page \in (IF fn = "iterate_pagerank" THEN KeyLists(corpus)
                       ELSE {CHOOSE s \in KeyLists(corpus) : TRUE})
    /\ pc = "call"
    /\ page \in (IF fn = "transition_model" THEN Pages ELSE {"a.html"})
    /\ n \in (IF fn = "sample_pagerank" THEN 1..MaxN ELSE {0})
    /\ state = "a.html"
    /\ i = 0
    /\ visits = EmptyDict
    /\ model = EmptyDict
    /\ pagerank = EmptyDict
    /\ diff = 0
    /\ past = EmptyDict
    /\ idx = 0
    /\ outcome = "none"
    /\ result = EmptyDict

\* transition_model(corpus, page, damping_factor); corpus[page] raises
\* KeyError when page is not a key
TransitionModelCall ==
    /\ fn = "transition_model" /\ pc = "call"
    /\ pc' = "done"
    /\ IF page \in DOMAIN corpus
       THEN /\ model' = transition_model(corpus, page, damping_factor)
            /\ result' = model'
            /\ outcome' = "returned"
       ELSE /\ outcome' = "error"
            /\ UNCHANGED <<model, result>>
    /\ UNCHANGED <<corpus, total_page, damping_factor, fn, page, n, state, i,
                   visits, pagerank, diff, past, idx>>

(***************************************************************************)
(* sample_pagerank                                                         *)
(***************************************************************************)
\* the pages random.choices can return: those of positive weight
Choices(m) == {p \in DOMAIN m : m[p][1] > 0}

\* slip: the counter is set to 1 instead of incremented
Count_reset(v, s) == [p \in DOMAIN v \cup {s} |-> IF p = s THEN 1 ELSE v[p]]

\* pagerank[state] = pagerank.get(state, 0) + 1
Count(v, s) == [p \in DOMAIN v \cup {s} |->
                  IF p = s THEN (IF s \in DOMAIN v THEN v[s] ELSE 0) + 1
                  ELSE v[p]]

\* total = sum(pagerank.values()); {key: value / total}
Normalize(v) == [k \in DOMAIN v |-> Rat(v[k], ISum(v))]

\* state = random.choice(list(corpus.keys())); IndexError on an empty list
SampleStart ==
    /\ fn = "sample_pagerank" /\ pc = "call"
    /\ IF DOMAIN corpus = {}
       THEN /\ outcome' = "error"
            /\ pc' = "done"
            /\ UNCHANGED state
       ELSE /\ state' \in DOMAIN corpus
            /\ pc' = "sample"
            /\ UNCHANGED outcome
    /\ visits' = EmptyDict
    /\ i' = 0
    /\ UNCHANGED <<corpus, total_page, damping_factor, fn, page, n, model,
                   pagerank, diff, past, idx, result>>

\* one pass of `for i in range(n)`
SampleDraw ==
    /\ fn = "sample_pagerank" /\ pc = "sample"
    /\ i < n
    /\ LET m == transition_model(corpus, state, damping_factor)
       IN \E next \in Choices(m) :
             /\ model' = m
             /\ state' = next
             /\ visits' = Count(visits, next)
    /\ i' = i + 1
    /\ UNCHANGED <<corpus, total_page, damping_factor, fn, pc, page, n,
                   pagerank, diff, past, idx, outcome, result>>

\* the loop is over: normalise and return
SampleReturn ==
    /\ fn = "sample_pagerank" /\ pc = "sample"
    /\ i = n
    /\ result' = Normalize(visits)
    /\ outcome' = "returned"
    /\ pc' = "done"
    /\ UNCHANGED <<corpus, total_page, damping_factor, fn, page, n, state, i,
                   visits, model, pagerank, diff, past, idx>>

(***************************************************************************)
(* iterate_pagerank, in fixed point                                        *)
(***************************************************************************)
\* one unit is 1/SCALE; with SCALE = 10^8 the largest product, 17 * SCALE,
\* stays below 2^31
SCALE == 10000 * 10000

\* a / b rounded to the nearest integer (a >= 0, b > 0)
RoundDiv(a, b) == (a + b \div 2) \div b

Abs(a) == IF a < 0 THEN -a ELSE a

\* converge = 0.001
converge == SCALE \div 1000

\* 1 / N
InitialRank(N) == RoundDiv(SCALE, N)

\* (1 - d) / N
BaseRank(d, N) == RoundDiv(SCALE - RoundDiv(d[1] * SCALE, d[2]), N)

\* d * sum_i
Damped(d, sum_i) == RoundDiv(d[1] * sum_i, d[2])

\* p = corpus[i]; if len(page) == 0: p = total_page
LinksOf(c, tp, pg, src) ==
    IF Len(pg) = 0 THEN {tp[k] : k \in DOMAIN tp} ELSE c[src]

\* one pass of `for i in total_page` for the page being recomputed
InnerStep(c, tp, d, pr, pg, src) ==
    LET p     == LinksOf(c, tp, pg, src)
        sum_i == IF pg \in p THEN RoundDiv(pr[src], Cardinality(p)) ELSE 0
    IN [pr EXCEPT ![pg] = @ + Damped(d, sum_i)]

\* the whole `for i in total_page` loop, from position k on
RECURSIVE InnerLoop(_, _, _, _, _, _)
InnerLoop(c, tp, d, pr, pg, k) ==
    IF k > Len(tp) THEN pr
    ELSE InnerLoop(c, tp, d, InnerStep(c, tp, d, pr, pg, tp[k]), pg, k + 1)

\* the body of `for page in total_page` up to the inner loop's end
Recompute(c, tp, d, pr, pg) ==
    InnerLoop(c, tp, d, [pr EXCEPT ![pg] = BaseRank(d, Len(tp))], pg, 1)

\* slip: the loop tests the sign of diff instead of the threshold
Continue_geq0(df) == df >= 0

\* the while condition
Continue(df) == df > converge

\* converge, diff, N, d, total_page and the initial pagerank
IterateStart ==
    /\ fn = "iterate_pagerank" /\ pc = "call"
    /\ diff' = SCALE
    /\ pagerank' = [k \in DOMAIN corpus |-> InitialRank(Cardinality(DOMAIN corpus))]
    /\ pc' = "while"
    /\ UNCHANGED <<corpus, total_page, damping_factor, fn, page, n, state, i,
                   visits, model, past, idx, outcome, result>>

\* while (diff > converge): enter the sweep
IterateSweep ==
    /\ fn = "iterate_pagerank" /\ pc = "while"
    /\ Continue(diff)
    /\ idx' = 1
    /\ pc' = "for"
    /\ UNCHANGED <<corpus, total_page, damping_factor, fn, page, n, state, i,
                   visits, model, pagerank, diff, past, outcome, result>>

\* one pass of `for page in total_page`
IterateUpdate ==
    /\ fn = "iterate_pagerank" /\ pc = "for"
    /\ idx <= Len(total_page)
    /\ LET pg == total_page[idx]
       IN /\ past' = [q \in DOMAIN past \cup {pg} |->
                        IF q = pg THEN pagerank[pg] ELSE past[q]]
          /\ pagerank' = Recompute(corpus, total_page, damping_factor, pagerank, pg)
          /\ diff' = Abs(pagerank'[pg] - pagerank[pg])
    /\ idx' = idx + 1
    /\ UNCHANGED <<corpus, total_page, damping_factor, fn, pc, page, n, state,
                   i, visits, model, outcome, result>>

\* the for loop is exhausted: back to the while test
IterateSweepEnd ==
    /\ fn = "iterate_pagerank" /\ pc = "for"
    /\ idx > Len(total_page)
    /\ pc' = "while"
    /\ UNCHANGED <<corpus, total_page, damping_factor, fn, page, n, state, i,
                   visits, model, pagerank, diff, past, idx, outcome, result>>

\* the while test fails: return pagerank
IterateReturn ==
    /\ fn = "iterate_pagerank" /\ pc = "while"
    /\ ~Continue(diff)
    /\ result' = pagerank
    /\ outcome' = "returned"
    /\ pc' = "done"
    /\ UNCHANGED <<corpus, total_page, damping_factor, fn, page, n, state, i,
                   visits, model, pagerank, diff, past, idx>>

Next ==
    \/ TransitionModelCall
    \/ SampleStart
    \/ SampleDraw
    \/ SampleReturn
    \/ IterateStart
    \/ IterateSweep
    \/ IterateUpdate
    \/ IterateSweepEnd
    \/ IterateReturn

Spec == Init /\ [][Next]_vars

\* the program is single-threaded and synchronous: a call that can take a
\* step takes it, so no enabled step is postponed forever
FairSpec == Spec /\ WF_vars(Next)

(***************************************************************************)
(* Properties                                                              *)
(***************************************************************************)
N == Cardinality(DOMAIN corpus)

\* C1: every distribution transition_model computes (called directly or by
\* the sampler) has exactly the corpus keys as keys, no negative value, and
\* values that sum to exactly 1.
C1_Distribution ==
    (model # EmptyDict) =>
        /\ DOMAIN model = DOMAIN corpus
        /\ \A p \in DOMAIN model : model[p][1] >= 0 /\ model[p][2] > 0
        /\ RSum(model) = <<1, 1>>

\* a dangling page of a three-page corpus has been given its distribution
C1_Witness ==
    /\ fn = "transition_model" /\ outcome = "returned"
    /\ N = 3 /\ corpus[page] = {}

\* C2: transition_model(corpus, page, d) gives every page p the value
\* (1 - d)/N, plus d/|linked| when p is in linked, where linked is
\* corpus[page], or every corpus page when corpus[page] is empty; for a
\* dangling page every page, itself included, gets exactly 1/N.
\* (Stated on numerators and denominators, cross-multiplied.)
C2_Reference ==
    (fn = "transition_model" /\ outcome = "returned") =>
        LET linked == IF corpus[page] = {} THEN DOMAIN corpus ELSE corpus[page]
            L      == Cardinality(linked)
            dn     == damping_factor[1]
            dd     == damping_factor[2]
        IN /\ \A p \in DOMAIN corpus :
                result[p][1] * (dd * N * L) =
                    result[p][2] * ((dd - dn) * L + (IF p \in linked THEN dn * N ELSE 0))
           /\ corpus[page] = {} =>
                \A p \in DOMAIN corpus : result[p][1] * N = result[p][2]

\* the scenario corpus {a: {}, b: {a}}, page a, d = 0.85 has been answered
C2_Witness ==
    /\ fn = "transition_model" /\ outcome = "returned"
    /\ DOMAIN corpus = {"a.html", "b.html"}
    /\ corpus["a.html"] = {} /\ corpus["b.html"] = {"a.html"}
    /\ page = "a.html" /\ damping_factor = <<17, 20>>
    /\ result["a.html"] = <<1, 2>> /\ result["b.html"] = <<1, 2>>

C3_Counters ==
    fn = "sample_pagerank" =>
        /\ pc = "sample" => /\ ISum(visits) = i
                            /\ DOMAIN visits \subseteq DOMAIN corpus
        /\ outcome = "returned" =>
              /\ DOMAIN result \subseteq DOMAIN corpus
              /\ \A p \in DOMAIN result : result[p][1] * n = visits[p] * result[p][2]
              /\ RSum(result) = <<1, 1>>

C3_Draw ==
    (fn = "sample_pagerank" /\ i' = i + 1) =>
        /\ state' \in DOMAIN visits'
        /\ visits'[state'] = (IF state' \in DOMAIN visits THEN visits[state'] ELSE 0) + 1
        /\ \A p \in DOMAIN visits' \ {state'} :
              p \in DOMAIN visits /\ visits'[p] = visits[p]

\* C3: after k draws of sample_pagerank the visit counters sum to k, each
\* draw changes only the drawn page's counter (the initial page is not
\* counted), and the returned mapping has corpus pages as keys, every value
\* equal to visits / n, and values that sum to exactly 1.
C3_Sampler == [](C3_Counters) /\ [][C3_Draw]_vars

\* a run of at least two draws has returned with a page left unvisited
C3_Witness ==
    /\ fn = "sample_pagerank" /\ outcome = "returned"
    /\ n >= 2
    /\ DOMAIN result # DOMAIN corpus
    /\ \E p \in DOMAIN visits : visits[p] >= 2

\* C4: the mapping iterate_pagerank returns for a non-empty corpus sums to
\* 1.0 within 1e-6 and every value is strictly positive.
C4_SumsToOne ==
    (fn = "iterate_pagerank" /\ outcome = "returned" /\ N > 0) =>
        /\ Abs(ISum(result) - SCALE) <= SCALE \div 1000000
        /\ \A p \in DOMAIN result : result[p] > 0

\* what a page src gives to page pg when dangling pages link to every page
DanglingShare(pr, pg, src) ==
    IF corpus[src] = {} THEN Damped(damping_factor, RoundDiv(pr[src], N))
    ELSE IF pg \in corpus[src]
         THEN Damped(damping_factor, RoundDiv(pr[src], Cardinality(corpus[src])))
         ELSE 0

C5_Update ==
    (fn = "iterate_pagerank" /\ pc = "for" /\ idx' = idx + 1) =>
        LET pg == total_page[idx]
        IN pagerank'[pg] = BaseRank(damping_factor, N)
              + ISum([src \in DOMAIN corpus |-> DanglingShare(pagerank, pg, src)])

\* C5: when iterate_pagerank recomputes rank(p), every page without
\* outbound links counts as linking to every page of the corpus and gives
\* d * rank(i) / N to rank(p).
C5_DanglingConvention == [][C5_Update]_vars

\* C6: when iterate_pagerank leaves its loop, every page's change in the
\* final sweep (its value before the sweep against its value after its own
\* update) is below the convergence threshold.
C6_AllConverged ==
    (fn = "iterate_pagerank" /\ outcome = "returned") =>
        \A p \in DOMAIN corpus : Abs(result[p] - past[p]) < converge

\* C7: on the single-page corpus {"a.html": set()} both sample_pagerank
\* and iterate_pagerank return exactly {"a.html": 1.0}.
C7_SinglePage ==
    (DOMAIN corpus = {"a.html"} /\ outcome = "returned") =>
        /\ fn = "sample_pagerank" => result = [p \in {"a.html"} |-> <<1, 1>>]
        /\ fn = "iterate_pagerank" => result = [p \in {"a.html"} |-> SCALE]

\* C8: called on a corpus without pages, each of the three functions ends
\* in an error outcome.
C8_EmptyCorpusError ==
    (DOMAIN corpus = {} /\ pc = "call") ~> (outcome = "error")

\* C9: at the end of every sweep of iterate_pagerank each page's rank is
\* the one computed from the ranks as they stood when the sweep began.
C9_Snapshot ==
    (fn = "iterate_pagerank" /\ pc = "while" /\ N > 0 /\ DOMAIN past = DOMAIN corpus) =>
        \A p \in DOMAIN corpus :
            pagerank[p] = Recompute(corpus, total_page, damping_factor, past, p)[p]

\* C10: on a non-empty corpus iterate_pagerank eventually leaves its loop
\* and returns a mapping over the corpus pages, and no step changes the
\* corpus.
C10_Terminates ==
    /\ (fn = "iterate_pagerank" /\ pc = "call" /\ N > 0)
          ~> (outcome = "returned" /\ DOMAIN result = DOMAIN corpus)
    /\ [][corpus' = corpus]_vars

\* a three-page run has returned after a last sweep that still moved a rank
C10_Witness ==
    /\ fn = "iterate_pagerank" /\ outcome = "returned"
    /\ N = 3
    /\ \E p \in DOMAIN corpus : result[p] # past[p]
====
